---- MODULE Spec2Model ----
(***************************************************************************)
(* Event trigger platform: the firing pipeline.                            *)
(*                                                                         *)
(* The relational store (triggers, trigger_schedules, event_logs), the     *)
(* bus, the scheduler engine's polling loop, the event firing service and  *)
(* the trigger service, each store call being one atomic step.  Time is    *)
(* counted in whole clock units: the DATETIME columns and NOW() of the     *)
(* store have that granularity.                                            *)
(***************************************************************************)
EXTENDS Integers, Sequences, FiniteSets, TLC

VARIABLES
    now,          \* the clock (time.Now() and the store's NOW())
    triggers,     \* rows of table triggers
    schedules,    \* rows of table trigger_schedules
    eventLogs,    \* rows of table event_logs
    bus,          \* events accepted by the bus, in order of acceptance
    nextSchedId,  \* uuid.New() for schedule rows
    nextEventId,  \* uuid.New() for event logs
    engines,      \* the scheduler processes that are running
    storeFaults,  \* whether calls to the store may fail (outage, expired context)
    eng,          \* per caller of FireTrigger (scheduler process, webhook
                  \* handler): its position
    nextTriggerId, \* uuid.New() for triggers
    upd,          \* the UpdateTrigger request in flight: its position
    api,          \* the API call that returned in the step just taken, with
                  \* its response
    ctxDone       \* the scheduler processes whose top-level context is
                  \* cancelled (ctx.Done() is closed)

vars == <<now, triggers, schedules, eventLogs, bus, nextSchedId, nextEventId,
          engines, storeFaults, eng, nextTriggerId, upd, api, ctxDone>>

----------------------------------------------------------------------------
(* Bounds of the model *)

MaxTime == 2
MaxSchedules == 4
MaxEvents == 3
MaxTriggers == 1
MaxUpdates == 1

(* Program constants *)

BatchLimit == 100
RetryCeiling == 5

Minute == 60             \* clock units (seconds) in time.Minute
ArchiveAge == 7200       \* INTERVAL 2 HOUR of archive_old_events
DeleteAge == 172800      \* INTERVAL 48 HOUR of delete_old_events
KafkaPartitions == 3     \* partitions of the topic trigger-events

EngineIds == {1, 2}
WebhookHandlers == {3}   \* requests in flight on POST /webhook/:trigger_id
Callers == EngineIds \cup WebhookHandlers
CronExprs == {1, 2}      \* "*/1", "*/2": every clock unit, every 2nd one
TzOffsets == {0, 1}      \* offset of the trigger's zone from UTC
TriggerTypes == {"webhook", "time_scheduled", "cron_scheduled"}

NoConfig == [cron |-> 0, tz |-> 0, run_at |-> 0, schema |-> FALSE]

\* schedule == nil: the request leaves the schedules alone.
NoFireAt == 0 - 1

\* No API call returned, and no job of the database ran, in the step just
\* taken.
NoCall ==
    [op |-> "none", trigger_id |-> 0, valid |-> TRUE, event_id |-> 0,
     ret |-> "none"]

NoSchedule ==
    [id |-> 0, trigger_id |-> 0, fire_at |-> 0, status |-> "none",
     attempt_count |-> 0, updated_at |-> 0]

----------------------------------------------------------------------------
(* Cron evaluator *)

\* A faulty evaluator: the expression is matched in UTC, the trigger's zone
\* being ignored.
CalculateNextFireTimeUTC(cronExpr, tz, from) ==
    ((from \div cronExpr) + 1) * cronExpr

\* The next instant of "*/p" strictly after `from`, computed in the zone
\* at offset tz and returned in UTC.
CalculateNextFireTime(cronExpr, tz, from) ==
    LET local == from + tz
        nextLocal == ((local \div cronExpr) + 1) * cronExpr
    IN  nextLocal - tz

----------------------------------------------------------------------------
(* Store: trigger_schedules and triggers *)

\* Whether a call to the store goes through (TRUE) or returns an error.
StoreOutcomes == IF storeFaults THEN BOOLEAN ELSE {TRUE}

\* The outcomes of a store call made with the context of caller e: a call
\* made with a cancelled context returns its error.
OutcomesFor(e) == IF e \in ctxDone THEN {FALSE} ELSE StoreOutcomes

TriggerIds == {t.id : t \in triggers}

TriggerRow(id) == CHOOSE t \in triggers : t.id = id

Min(a, b) == IF a <= b THEN a ELSE b

\* A faulty query: fire_at < NOW(), so that a schedule is not due at its
\* own instant.
DueRowsStrict ==
    {[Schedule |-> s, Trigger |-> TriggerRow(s.trigger_id)] :
        s \in {x \in schedules :
                 /\ x.fire_at < now
                 /\ x.status = "pending"
                 /\ \E t \in triggers : t.id = x.trigger_id /\ t.status = "active"}}

\* Rows joined with their trigger that are due: fire_at <= NOW(), schedule
\* pending, trigger active.
DueRows ==
    {[Schedule |-> s, Trigger |-> TriggerRow(s.trigger_id)] :
        s \in {x \in schedules :
                 /\ x.fire_at <= now
                 /\ x.status = "pending"
                 /\ \E t \in triggers : t.id = x.trigger_id /\ t.status = "active"}}

\* A faulty query: no ORDER BY, the rows come in any order.
RECURSIVE Unordered(_)
Unordered(rows) ==
    IF rows = {} THEN {<<>>}
    ELSE UNION {{<<r>> \o rest : rest \in Unordered(rows \ {r})} : r \in rows}

\* Every ordering of rows by fire_at ascending (ties in any order).
RECURSIVE OrderedByFireAt(_)
OrderedByFireAt(rows) ==
    IF rows = {} THEN {<<>>}
    ELSE UNION {{<<r>> \o rest : rest \in OrderedByFireAt(rows \ {r})} :
                  r \in {x \in rows :
                           \A y \in rows : x.Schedule.fire_at <= y.Schedule.fire_at}}

GetDueSchedules(limit) ==
    {SubSeq(seq, 1, Min(limit, Len(seq))) : seq \in OrderedByFireAt(DueRows)}

\* A faulty statement: the status update counts as an attempt.
UpdateScheduleStatusCounting(scheduleID, status) ==
    {IF s.id = scheduleID
        THEN [s EXCEPT !.status = status, !.updated_at = now,
                       !.attempt_count = @ + 1]
        ELSE s : s \in schedules}

\* UPDATE trigger_schedules SET status = ?, updated_at = NOW() WHERE id = ?
\* The rows the statement changes (the driver reports changed rows).
UpdateScheduleStatusRows(scheduleID, status) ==
    Cardinality({s \in schedules :
        s.id = scheduleID /\ (s.status # status \/ s.updated_at # now)})

UpdateScheduleStatus(scheduleID, status) ==
    {IF s.id = scheduleID
        THEN [s EXCEPT !.status = status, !.updated_at = now]
        ELSE s : s \in schedules}

\* UPDATE trigger_schedules SET status = 'pending',
\*   attempt_count = attempt_count + 1, last_attempt_at = NOW(),
\*   updated_at = NOW() WHERE id = ?
\* The scheduler engine has no call of it.
RevertScheduleToPending(scheduleID) ==
    {IF s.id = scheduleID
        THEN [s EXCEPT !.status = "pending", !.attempt_count = @ + 1,
                       !.updated_at = now]
        ELSE s : s \in schedules}

\* A faulty schema: trigger_schedules has no foreign key to triggers.
CreateNextScheduleUnconstrained(schedule) == TRUE

\* INSERT INTO trigger_schedules; the foreign key needs the trigger row.
CreateNextScheduleOk(schedule) == schedule.trigger_id \in TriggerIds

CreateNextSchedule(schedule) == schedules \cup {schedule}

\* A faulty store: the deactivation reports its row and leaves it as it was.
DeactivateTriggerSkipped(triggerID) == triggers

\* UPDATE triggers SET status = 'inactive', updated_at = NOW() WHERE id = ?
DeactivateTriggerRows(triggerID) ==
    Cardinality({t \in triggers :
        t.id = triggerID /\ (t.status # "inactive" \/ t.updated_at # now)})

DeactivateTrigger(triggerID) ==
    {IF t.id = triggerID
        THEN [t EXCEPT !.status = "inactive", !.updated_at = now]
        ELSE t : t \in triggers}

\* CreateTrigger: one transaction inserts the trigger and, when there is
\* one, its first schedule.  The rows of each table after the commit.
CreateTriggerRow(trigger) == triggers \cup {trigger}

\* A faulty store: the first schedule is queued for the moment of the
\* INSERT, not for the instant the service computed.
CreateTriggerScheduleAtNow(trigger, fireAt) ==
    IF fireAt = NoFireAt
    THEN schedules
    ELSE schedules \cup {[id |-> nextSchedId, trigger_id |-> trigger.id,
                          fire_at |-> now, status |-> "pending",
                          attempt_count |-> 0, updated_at |-> now]}

CreateTriggerSchedule(trigger, fireAt) ==
    IF fireAt = NoFireAt
    THEN schedules
    ELSE schedules \cup {[id |-> nextSchedId, trigger_id |-> trigger.id,
                          fire_at |-> fireAt, status |-> "pending",
                          attempt_count |-> 0, updated_at |-> now]}

\* A faulty store: the INSERTs run outside a transaction, so the trigger
\* row stays when the INSERT of its schedule fails.
CreateTriggerNoRollback(trigger, fireAt, insertOk, scheduleOk) ==
    IF insertOk /\ (fireAt = NoFireAt \/ scheduleOk)
    THEN [ok |-> TRUE, triggers |-> CreateTriggerRow(trigger),
          schedules |-> CreateTriggerSchedule(trigger, fireAt)]
    ELSE [ok |-> FALSE,
          triggers |-> IF insertOk THEN CreateTriggerRow(trigger) ELSE triggers,
          schedules |-> schedules]

\* MySQLClient.CreateTrigger: the transaction commits when the INSERT of
\* the trigger and, when there is a schedule, the INSERT of the schedule
\* went through; otherwise it is rolled back.
CreateTriggerTx(trigger, fireAt, insertOk, scheduleOk) ==
    IF insertOk /\ (fireAt = NoFireAt \/ scheduleOk)
    THEN [ok |-> TRUE, triggers |-> CreateTriggerRow(trigger),
          schedules |-> CreateTriggerSchedule(trigger, fireAt)]
    ELSE [ok |-> FALSE, triggers |-> triggers, schedules |-> schedules]

\* UPDATE triggers SET <updates>, updated_at = NOW() WHERE id = ?
\* updates: status ("none": not in the update) and config (has_config).
UpdatedTrigger(t, updates) ==
    [t EXCEPT !.status = IF updates.status = "none" THEN @ ELSE updates.status,
              !.config = IF updates.has_config THEN updates.config ELSE @,
              !.updated_at = now]

\* The rows the statement changes; none makes UpdateTrigger return
\* ErrTriggerNotFound.
UpdateTriggerRows(triggerID, updates) ==
    Cardinality({t \in triggers :
        t.id = triggerID /\ UpdatedTrigger(t, updates) # t})

UpdateTrigger(triggerID, updates) ==
    {IF t.id = triggerID THEN UpdatedTrigger(t, updates) ELSE t : t \in triggers}

\* getNextSchedule, which GetTrigger returns as nextScheduledRun:
\* SELECT fire_at FROM trigger_schedules WHERE trigger_id = ?
\*   AND status IN ('pending', 'processing') ORDER BY fire_at ASC LIMIT 1
\* (nil, here NoFireAt, when there is no such row).
getNextSchedule(triggerID) ==
    LET open == {s \in schedules : /\ s.trigger_id = triggerID
                                   /\ s.status \in {"pending", "processing"}}
    IN  IF open = {} THEN NoFireAt
        ELSE (CHOOSE s \in open : \A x \in open : s.fire_at <= x.fire_at).fire_at

\* DELETE FROM triggers WHERE id = ?; trigger_schedules cascade, event_logs
\* keep their rows with trigger_id NULL (0).
DeleteTriggerRows(triggerID) == {t \in triggers : t.id # triggerID}

DeleteTriggerSchedules(triggerID) == {s \in schedules : s.trigger_id # triggerID}

\* A faulty schema: the event logs of the trigger are deleted with it.
DeleteTriggerEventLogsCascade(triggerID) ==
    {l \in eventLogs : l.trigger_id # triggerID}

DeleteTriggerEventLogs(triggerID) ==
    {IF l.trigger_id = triggerID THEN [l EXCEPT !.trigger_id = 0] ELSE l :
        l \in eventLogs}

\* A faulty store: only the pending schedules are cancelled.
UpsertTriggerSchedulePendingOnly(triggerID, fireAt) ==
    {IF s.trigger_id = triggerID /\ s.status = "pending"
        THEN [s EXCEPT !.status = "cancelled", !.updated_at = now]
        ELSE s : s \in schedules}
    \cup {[id |-> nextSchedId, trigger_id |-> triggerID, fire_at |-> fireAt,
           status |-> "pending", attempt_count |-> 0, updated_at |-> now]}

\* UpsertTriggerSchedule: one transaction cancels the trigger's pending and
\* processing schedules and inserts the new one.
UpsertTriggerSchedule(triggerID, fireAt) ==
    {IF s.trigger_id = triggerID /\ s.status \in {"pending", "processing"}
        THEN [s EXCEPT !.status = "cancelled", !.updated_at = now]
        ELSE s : s \in schedules}
    \cup {[id |-> nextSchedId, trigger_id |-> triggerID, fire_at |-> fireAt,
           status |-> "pending", attempt_count |-> 0, updated_at |-> now]}

----------------------------------------------------------------------------
(* Store: event_logs *)

\* INSERT INTO event_logs; the foreign key needs the trigger row.
CreateEventLogOk(eventLog) == eventLog.trigger_id \in TriggerIds

CreateEventLog(eventLog) == eventLogs \cup {eventLog}

\* A faulty patch: the row is written back whole from the log FireTrigger
\* built, retention_status active included.
UpdateEventLogStatusWholeRow(eventID, status, errorMessage) ==
    {IF l.id = eventID
        THEN [l EXCEPT !.execution_status = status, !.error_message = errorMessage,
                       !.retention_status = "active"]
        ELSE l : l \in eventLogs}

\* A faulty patch: the statement sets fired_at to the time of the patch as
\* well.
UpdateEventLogStatusRestamped(eventID, status, errorMessage) ==
    {IF l.id = eventID
        THEN [l EXCEPT !.execution_status = status, !.error_message = errorMessage,
                       !.fired_at = now]
        ELSE l : l \in eventLogs}

\* UPDATE event_logs SET execution_status = ?, error_message = ? WHERE id = ?
UpdateEventLogStatus(eventID, status, errorMessage) ==
    {IF l.id = eventID
        THEN [l EXCEPT !.execution_status = status, !.error_message = errorMessage]
        ELSE l : l \in eventLogs}

\* What GetEventLog returns for an id without a row: (nil, nil).
NoEventLog ==
    [id |-> 0, trigger_id |-> 0, trigger_type |-> "none", fired_at |-> 0,
     source |-> "none", execution_status |-> "none", error_message |-> "",
     retention_status |-> "none", is_test_run |-> FALSE]

\* SELECT ... FROM event_logs WHERE id = ?
GetEventLog(eventID) ==
    IF \E l \in eventLogs : l.id = eventID
    THEN CHOOSE l \in eventLogs : l.id = eventID
    ELSE NoEventLog

\* The retention_status values a list request may filter by; an empty
\* filter reads as active.
RetentionFilters == {"", "active", "archived"}

\* SELECT ... FROM event_logs WHERE retention_status = ? (all pages)
ListEventLogs(retentionStatus) ==
    LET filter == IF retentionStatus = "" THEN "active" ELSE retentionStatus
    IN  {l \in eventLogs : l.retention_status = filter}

\* The event archive_old_events, run at time `at` over the rows `logs`:
\* UPDATE event_logs SET retention_status = 'archived'
\* WHERE retention_status = 'active'
\*   AND fired_at < DATE_SUB(NOW(), INTERVAL 2 HOUR)
archive_old_events(logs, at) ==
    {IF l.retention_status = "active" /\ l.fired_at < at - ArchiveAge
        THEN [l EXCEPT !.retention_status = "archived"]
        ELSE l : l \in logs}

\* A faulty delete job: only rows the archive job has marked are deleted.
delete_archived_events(logs, at) ==
    {l \in logs : ~(l.retention_status = "archived" /\ l.fired_at < at - DeleteAge)}

\* The event delete_old_events:
\* DELETE FROM event_logs WHERE fired_at < DATE_SUB(NOW(), INTERVAL 48 HOUR)
delete_old_events(logs, at) ==
    {l \in logs : ~(l.fired_at < at - DeleteAge)}

----------------------------------------------------------------------------
(* Event firing service: FireTrigger, one step per store or bus call *)

NoFire == [event_id |-> 0, err |-> FALSE]

\* The source the caller passes: the engine EventSourceScheduler, the
\* webhook handler EventSourceWebhook.
SourceOf(e) == IF e \in EngineIds THEN "scheduler" ELSE "webhook"

NewEventLog(eventID, trigger, source, isTestRun) ==
    [id |-> eventID, trigger_id |-> trigger.id, trigger_type |-> trigger.type,
     fired_at |-> now, source |-> source, execution_status |-> "success",
     error_message |-> "", retention_status |-> "active",
     is_test_run |-> isTestRun]

\* A faulty FireTrigger: the error of CreateEventLog is dropped and the
\* event is published all the same.
FireCreateLogUnchecked(e) ==
    /\ eng[e].pc = "fire"
    /\ nextEventId <= MaxEvents
    /\ LET item == Head(eng[e].batch)
           eventLog == NewEventLog(nextEventId, item.Trigger, SourceOf(e), FALSE)
       IN  \E dbOk \in OutcomesFor(e) :
             /\ eventLogs' = IF dbOk /\ CreateEventLogOk(eventLog)
                              THEN CreateEventLog(eventLog) ELSE eventLogs
             /\ nextEventId' = nextEventId + 1
             /\ eng' = [eng EXCEPT ![e].pc = "publish",
                                   ![e].fire = [event_id |-> nextEventId,
                                                err |-> FALSE]]
    /\ UNCHANGED <<ctxDone, now, triggers, schedules, bus, nextSchedId,
                   engines, storeFaults,
                   nextTriggerId, upd>>
    /\ api' = NoCall

\* eventID := uuid.New(); CreateEventLog.  On failure FireTrigger returns
\* ("", err) without publishing.
FireCreateLog(e) ==
    /\ eng[e].pc = "fire"
    /\ nextEventId <= MaxEvents
    /\ LET item == Head(eng[e].batch)
           eventLog == NewEventLog(nextEventId, item.Trigger, SourceOf(e), FALSE)
       IN  \E dbOk \in OutcomesFor(e) :
             IF dbOk /\ CreateEventLogOk(eventLog)
             THEN /\ eventLogs' = CreateEventLog(eventLog)
                  /\ nextEventId' = nextEventId + 1
                  /\ eng' = [eng EXCEPT ![e].pc = "publish",
                                        ![e].fire = [event_id |-> nextEventId,
                                                     err |-> FALSE]]
             ELSE /\ eventLogs' = eventLogs
                  /\ nextEventId' = nextEventId
                  /\ eng' = [eng EXCEPT ![e].pc = "complete",
                                        ![e].fire = [event_id |-> 0, err |-> TRUE]]
    /\ UNCHANGED <<ctxDone, now, triggers, schedules, bus, nextSchedId,
                   engines, storeFaults,
                   nextTriggerId, upd>>
    /\ api' = NoCall

\* The messages the writer of a process (scheduler or API, told apart by
\* the source of their events) has had partition p take.
BytesOn(source, p) ==
    Cardinality({i \in 1..Len(bus) :
                   bus[i].source = source /\ bus[i].partition = p})

\* Balancer: &kafka.LeastBytes{}: the partition that has received the least
\* from this writer, the first of them; the key of the message is not
\* looked at.
LeastBytes(source, key) ==
    CHOOSE p \in 0..(KafkaPartitions - 1) :
       \A q \in 0..(KafkaPartitions - 1) :
          \/ BytesOn(source, p) < BytesOn(source, q)
          \/ BytesOn(source, p) = BytesOn(source, q) /\ p <= q

\* publisher.Publish: the bus accepts the event or the call fails.
FirePublish(e) ==
    /\ eng[e].pc = "publish"
    /\ LET item == Head(eng[e].batch)
           event == [event_id |-> eng[e].fire.event_id,
                     trigger_id |-> item.Trigger.id,
                     type |-> item.Trigger.type, source |-> SourceOf(e),
                     partition |-> LeastBytes(SourceOf(e), item.Trigger.id)]
       IN  \E accepted \in BOOLEAN :
             IF accepted
             THEN /\ bus' = Append(bus, event)
                  /\ eng' = [eng EXCEPT ![e].pc = "complete"]
             ELSE /\ bus' = bus
                  /\ eng' = [eng EXCEPT ![e].pc = "patch", ![e].fire.err = TRUE]
    /\ UNCHANGED <<ctxDone, now, triggers, schedules, eventLogs, nextSchedId,
                   nextEventId,
                   engines, storeFaults,
                   nextTriggerId, upd>>
    /\ api' = NoCall

\* After a failed publish: UpdateEventLogStatus(failure); an error of the
\* update is logged only.  FireTrigger returns (eventID, err).
FirePatch(e) ==
    /\ eng[e].pc = "patch"
    /\ \E dbOk \in OutcomesFor(e) :
         eventLogs' = IF dbOk
                      THEN UpdateEventLogStatus(eng[e].fire.event_id, "failure",
                                                "Kafka publish failed")
                      ELSE eventLogs
    /\ eng' = [eng EXCEPT ![e].pc = "complete"]
    /\ UNCHANGED <<ctxDone, now, triggers, schedules, bus, nextSchedId,
                   nextEventId, engines, storeFaults,
                   nextTriggerId, upd>>
    /\ api' = NoCall

----------------------------------------------------------------------------
(* Scheduler engine *)

IdleEngine == [pc |-> "idle", batch |-> <<>>, fire |-> NoFire, ret |-> "none"]

\* One tick: GetDueSchedules(100); an empty batch returns at once, and so
\* does the error of a call made with a cancelled context.
ProcessSchedules(e) ==
    /\ e \in engines
    /\ e \notin ctxDone
    /\ eng[e].pc = "idle"
    /\ \E batch \in GetDueSchedules(BatchLimit) :
         /\ batch # <<>>
         /\ eng' = [eng EXCEPT ![e] = [pc |-> "claim", batch |-> batch,
                                       fire |-> NoFire, ret |-> "none"]]
    /\ UNCHANGED <<ctxDone, now, triggers, schedules, eventLogs, bus,
                   nextSchedId,
                   nextEventId, engines, storeFaults,
                   nextTriggerId, upd>>
    /\ api' = NoCall

\* A faulty engine: the error of the claim is dropped and the schedule is
\* fired all the same.
ClaimUnchecked(e) ==
    /\ eng[e].pc = "claim"
    /\ LET id == Head(eng[e].batch).Schedule.id
       IN  \E dbOk \in OutcomesFor(e) :
             schedules' = IF dbOk /\ UpdateScheduleStatusRows(id, "processing") > 0
                          THEN UpdateScheduleStatus(id, "processing")
                          ELSE schedules
    /\ eng' = [eng EXCEPT ![e].pc = "fire", ![e].fire = NoFire, ![e].ret = "none"]
    /\ UNCHANGED <<ctxDone, now, triggers, eventLogs, bus, nextSchedId,
                   nextEventId, engines, storeFaults, nextTriggerId, upd>>
    /\ api' = NoCall

\* processSchedule step 1: UpdateScheduleStatus(id, processing).
Claim(e) ==
    /\ eng[e].pc = "claim"
    /\ LET id == Head(eng[e].batch).Schedule.id
       IN  \E dbOk \in OutcomesFor(e) :
             IF dbOk /\ UpdateScheduleStatusRows(id, "processing") > 0
             THEN /\ schedules' = UpdateScheduleStatus(id, "processing")
                  /\ eng' = [eng EXCEPT ![e].pc = "fire", ![e].fire = NoFire,
                                        ![e].ret = "none"]
             ELSE /\ schedules' = schedules
                  /\ eng' = [eng EXCEPT ![e].pc = "done", ![e].fire = NoFire,
                                        ![e].ret = "claim_failed"]
    /\ UNCHANGED <<ctxDone, now, triggers, eventLogs, bus, nextSchedId,
                   nextEventId, engines, storeFaults,
                   nextTriggerId, upd>>
    /\ api' = NoCall

\* processSchedule step 4: whatever FireTrigger returned,
\* UpdateScheduleStatus(id, completed).
Complete(e) ==
    /\ eng[e].pc = "complete"
    /\ LET id == Head(eng[e].batch).Schedule.id
       IN  \E dbOk \in OutcomesFor(e) :
             IF dbOk /\ UpdateScheduleStatusRows(id, "completed") > 0
             THEN /\ schedules' = UpdateScheduleStatus(id, "completed")
                  /\ eng' = [eng EXCEPT ![e].pc = "post"]
             ELSE /\ schedules' = schedules
                  /\ eng' = [eng EXCEPT ![e].pc = "done",
                                        ![e].ret = "complete_failed"]
    /\ UNCHANGED <<ctxDone, now, triggers, eventLogs, bus, nextSchedId,
                   nextEventId, engines, storeFaults,
                   nextTriggerId, upd>>
    /\ api' = NoCall

\* processSchedule step 5, time_scheduled: DeactivateTrigger.
PostDeactivate(e) ==
    /\ eng[e].pc = "post"
    /\ LET trigger == Head(eng[e].batch).Trigger
       IN  /\ trigger.type = "time_scheduled"
           /\ \E dbOk \in OutcomesFor(e) :
                IF dbOk /\ DeactivateTriggerRows(trigger.id) > 0
                THEN /\ triggers' = DeactivateTrigger(trigger.id)
                     /\ eng' = [eng EXCEPT ![e].pc = "done", ![e].ret = "nil"]
                ELSE /\ triggers' = triggers
                     /\ eng' = [eng EXCEPT ![e].pc = "done",
                                           ![e].ret = "deactivate_failed"]
    /\ UNCHANGED <<ctxDone, now, schedules, eventLogs, bus, nextSchedId,
                   nextEventId, engines, storeFaults,
                   nextTriggerId, upd>>
    /\ api' = NoCall

\* processSchedule step 5, cron_scheduled whose trigger was read as active:
\* createNextSchedule, from the config read with the batch and time.Now().
PostCreateNext(e) ==
    /\ eng[e].pc = "post"
    /\ nextSchedId <= MaxSchedules
    /\ LET trigger == Head(eng[e].batch).Trigger
           nextSchedule ==
               [id |-> nextSchedId, trigger_id |-> trigger.id,
                fire_at |-> CalculateNextFireTime(trigger.config.cron,
                                                  trigger.config.tz, now),
                status |-> "pending", attempt_count |-> 0, updated_at |-> now]
       IN  /\ trigger.type = "cron_scheduled"
           /\ trigger.status = "active"
           /\ \E dbOk \in OutcomesFor(e) :
                IF dbOk /\ CreateNextScheduleOk(nextSchedule)
                THEN /\ schedules' = CreateNextSchedule(nextSchedule)
                     /\ nextSchedId' = nextSchedId + 1
                     /\ eng' = [eng EXCEPT ![e].pc = "done", ![e].ret = "nil"]
                ELSE /\ schedules' = schedules
                     /\ nextSchedId' = nextSchedId
                     /\ eng' = [eng EXCEPT ![e].pc = "done",
                                           ![e].ret = "create_next_failed"]
    /\ UNCHANGED <<ctxDone, now, triggers, eventLogs, bus, nextEventId,
                   engines, storeFaults,
                   nextTriggerId, upd>>
    /\ api' = NoCall

\* A faulty loop: the tick ends at the first schedule whose processing
\* returned an error.
NextInBatchStopOnError(e) ==
    /\ eng[e].pc = "done"
    /\ LET rest == IF eng[e].ret = "nil" THEN Tail(eng[e].batch) ELSE <<>>
       IN  eng' = [eng EXCEPT ![e] = [pc |-> IF rest = <<>> THEN "idle" ELSE "claim",
                                       batch |-> rest, fire |-> NoFire,
                                       ret |-> "none"]]
    /\ UNCHANGED <<ctxDone, now, triggers, schedules, eventLogs, bus,
                   nextSchedId, nextEventId, engines, storeFaults,
                   nextTriggerId, upd>>
    /\ api' = NoCall

\* processSchedules: the loop takes the next schedule of the batch, or the
\* tick ends.
NextInBatch(e) ==
    /\ eng[e].pc = "done"
    /\ LET rest == Tail(eng[e].batch)
       IN  eng' = [eng EXCEPT ![e] = [pc |-> IF rest = <<>> THEN "idle" ELSE "claim",
                                       batch |-> rest, fire |-> NoFire,
                                       ret |-> "none"]]
    /\ UNCHANGED <<ctxDone, now, triggers, schedules, eventLogs, bus,
                   nextSchedId,
                   nextEventId, engines, storeFaults,
                   nextTriggerId, upd>>
    /\ api' = NoCall

\* The shutdown signal: main cancels the context Run was given.
Cancel(e) ==
    /\ e \in engines
    /\ e \notin ctxDone
    /\ ctxDone' = ctxDone \cup {e}
    /\ UNCHANGED <<now, triggers, schedules, eventLogs, bus, nextSchedId,
                   nextEventId, engines, storeFaults, eng, nextTriggerId, upd>>
    /\ api' = NoCall

\* Run, between two ticks, selects ctx.Done() and returns ctx.Err().
RunReturn(e) ==
    /\ e \in engines
    /\ e \in ctxDone
    /\ eng[e].pc = "idle"
    /\ eng' = [eng EXCEPT ![e].pc = "stopped"]
    /\ UNCHANGED <<ctxDone, now, triggers, schedules, eventLogs, bus,
                   nextSchedId, nextEventId, engines, storeFaults,
                   nextTriggerId, upd>>
    /\ api' = NoCall

\* The clock advances.
Tick ==
    /\ now < MaxTime
    /\ now' = now + 1
    /\ UNCHANGED <<ctxDone, triggers, schedules, eventLogs, bus, nextSchedId,
                   nextEventId,
                   engines, storeFaults, eng, nextTriggerId, upd>>
    /\ api' = NoCall

\* Time passes while nothing else happens: one of the two retention ages,
\* each at most once.
Elapse ==
    /\ \E age \in {ArchiveAge, DeleteAge} :
         /\ now < age
         /\ now' = now + age
    /\ UNCHANGED <<ctxDone, triggers, schedules, eventLogs, bus, nextSchedId,
                   nextEventId,
                   engines, storeFaults, eng, nextTriggerId, upd>>
    /\ api' = NoCall

\* The job a run of a database event reports in `api`.
JobRan(name) ==
    [op |-> name, trigger_id |-> 0, valid |-> TRUE, event_id |-> 0,
     ret |-> "none"]

\* The event scheduler of the database runs archive_old_events.
ArchiveJob ==
    /\ eventLogs' = archive_old_events(eventLogs, now)
    /\ api' = JobRan("archive_old_events")
    /\ UNCHANGED <<ctxDone, now, triggers, schedules, bus, nextSchedId,
                   nextEventId,
                   engines, storeFaults, eng, nextTriggerId, upd>>

\* The event scheduler of the database runs delete_old_events.
DeleteJob ==
    /\ eventLogs' = delete_old_events(eventLogs, now)
    /\ api' = JobRan("delete_old_events")
    /\ UNCHANGED <<ctxDone, now, triggers, schedules, bus, nextSchedId,
                   nextEventId,
                   engines, storeFaults, eng, nextTriggerId, upd>>

----------------------------------------------------------------------------
(* Trigger service *)

\* The three preparations of a request's config: whether it is accepted,
\* the config to store, and the fire_at of the schedule to queue.
normalizeWebhookConfig(schema) ==
    [ok |-> TRUE,
     config |-> [cron |-> 0, tz |-> 0, run_at |-> 0, schema |-> schema],
     fire_at |-> NoFireAt]

prepareTimeSchedule(runAt) ==
    [ok |-> ~(runAt < now - Minute),
     config |-> [cron |-> 0, tz |-> 0, run_at |-> runAt, schema |-> FALSE],
     fire_at |-> runAt]

prepareCronSchedule(cronExpr, tz) ==
    [ok |-> TRUE,
     config |-> [cron |-> cronExpr, tz |-> tz, run_at |-> 0, schema |-> FALSE],
     fire_at |-> CalculateNextFireTime(cronExpr, tz, now)]

\* The switch on the trigger's type, over the configs a request may carry.
Prepared(type) ==
    CASE type = "webhook" -> {normalizeWebhookConfig(schema) : schema \in BOOLEAN}
      [] type = "time_scheduled" -> {prepareTimeSchedule(runAt) : runAt \in 0..MaxTime}
      [] type = "cron_scheduled" ->
            {prepareCronSchedule(cronExpr, tz) : cronExpr \in CronExprs,
                                                 tz \in TzOffsets}

\* The requests CreateTrigger and UpdateTrigger may be sent, by what their
\* fields hold: the name (blank: empty or white space only), the type, and
\* in the config whether endpoint is given, run_at (past: more than a
\* minute before time.Now()), cron and timezone.  A config carries the
\* fields of its type; the others read as absent.
Requests ==
    [name : {"blank", "given"}, type : {"webhook", "other"},
     endpoint : BOOLEAN, run_at : {"absent"}, cron : {"absent"},
     timezone : {""}]
    \cup
    [name : {"blank", "given"}, type : {"time_scheduled"},
     endpoint : BOOLEAN, run_at : {"absent", "malformed", "past", "future"},
     cron : {"absent"}, timezone : {"", "known", "unknown"}]
    \cup
    [name : {"blank", "given"}, type : {"cron_scheduled"},
     endpoint : BOOLEAN, run_at : {"absent"},
     cron : {"absent", "invalid", "valid"},
     timezone : {"", "known", "unknown"}]

\* resolveLocation: time.LoadLocation fails for an unknown zone.
resolveLocationError(tz) == IF tz = "unknown" THEN "validation" ELSE "none"

\* The error prepareTimeSchedule returns: a ValidationError ("validation"),
\* another error ("internal"), or none.
prepareTimeScheduleError(req) ==
    IF req.run_at = "absent" THEN "validation"
    ELSE IF ~req.endpoint THEN "validation"
    ELSE IF resolveLocationError(req.timezone) # "none"
         THEN resolveLocationError(req.timezone)
    ELSE IF req.run_at = "malformed" THEN "internal"
    ELSE IF req.run_at = "past" THEN "validation"
    ELSE "none"

prepareCronScheduleError(req) ==
    IF req.cron = "absent" THEN "validation"
    ELSE IF ~req.endpoint THEN "validation"
    ELSE IF resolveLocationError(req.timezone) # "none"
         THEN resolveLocationError(req.timezone)
    ELSE IF req.cron = "invalid" THEN "internal"
    ELSE "none"

normalizeWebhookConfigError(req) ==
    IF ~req.endpoint THEN "validation" ELSE "none"

\* The switch on the type, with its default.
PrepareError(type, req) ==
    CASE type = "webhook" -> normalizeWebhookConfigError(req)
      [] type = "time_scheduled" -> prepareTimeScheduleError(req)
      [] type = "cron_scheduled" -> prepareCronScheduleError(req)
      [] OTHER -> "validation"

\* Service.CreateTrigger up to the call of the store.
CreateTriggerError(req) ==
    IF req.name # "given" THEN "validation" ELSE PrepareError(req.type, req)

\* Service.UpdateTrigger, for a stored trigger of the given type, up to the
\* call of the store.
UpdateTriggerError(type, req) ==
    IF req.name = "blank" THEN "validation" ELSE PrepareError(type, req)

\* TriggerHandler.handleServiceError: the status the error is answered with.
handleServiceError(err) ==
    CASE err = "validation" -> "400"
      [] err = "not_found" -> "404"
      [] OTHER -> "500"

\* CreateTrigger with a request its preparation refuses: the store is not
\* called.
CreateTriggerInvalid ==
    /\ \E req \in Requests :
         /\ CreateTriggerError(req) # "none"
         /\ api' = [op |-> "create", trigger_id |-> 0, valid |-> FALSE,
                    event_id |-> 0,
                    ret |-> handleServiceError(CreateTriggerError(req))]
    /\ UNCHANGED <<ctxDone, now, triggers, schedules, eventLogs, bus,
                   nextSchedId, nextEventId, engines, storeFaults, eng,
                   nextTriggerId, upd>>

\* UpdateTrigger of a stored trigger with a request its preparation
\* refuses: the store is read only.
UpdateTriggerInvalid ==
    /\ \E id \in TriggerIds :
       \E req \in {r \in Requests : r.type = TriggerRow(id).type} :
         LET err == UpdateTriggerError(TriggerRow(id).type, req)
         IN  /\ err # "none"
             /\ api' = [op |-> "update", trigger_id |-> id, valid |-> FALSE,
                        event_id |-> 0, ret |-> handleServiceError(err)]
    /\ UNCHANGED <<ctxDone, now, triggers, schedules, eventLogs, bus,
                   nextSchedId, nextEventId, engines, storeFaults, eng,
                   nextTriggerId, upd>>

\* The ids a request may name: those uuid.New() may have produced.
RequestIds == 1..MaxTriggers

\* Service.CreateTrigger: prepare, then store.CreateTrigger, whose INSERTs
\* may fail.
CreateTrigger ==
    /\ nextTriggerId <= MaxTriggers
    /\ \E type \in TriggerTypes : \E p \in Prepared(type) :
       \E insertOk \in StoreOutcomes, scheduleOk \in StoreOutcomes :
         LET trigger == [id |-> nextTriggerId, type |-> type, status |-> "active",
                         config |-> p.config, updated_at |-> now]
             tx == CreateTriggerTx(trigger, p.fire_at, insertOk, scheduleOk)
         IN  /\ p.ok
             /\ p.fire_at # NoFireAt => nextSchedId <= MaxSchedules
             /\ triggers' = tx.triggers
             /\ schedules' = tx.schedules
             /\ nextSchedId' = IF tx.ok /\ p.fire_at # NoFireAt
                               THEN nextSchedId + 1 ELSE nextSchedId
             /\ nextTriggerId' = IF tx.ok THEN nextTriggerId + 1 ELSE nextTriggerId
             /\ api' = [op |-> "create", trigger_id |-> nextTriggerId,
                        valid |-> TRUE, event_id |-> 0,
                        ret |-> IF tx.ok THEN "ok" ELSE "error"]
    /\ UNCHANGED <<ctxDone, now, eventLogs, bus, nextEventId, engines,
                   storeFaults, eng, upd>>

\* No UpdateTrigger request in flight, `served` of them having been made.
IdleUpdate(served) ==
    [pc |-> "idle", trigger_id |-> 0,
     updates |-> [status |-> "none", has_config |-> FALSE, config |-> NoConfig],
     fire_at |-> NoFireAt, served |-> served,
     current |-> NoConfig, open |-> {}, at |-> 0]

\* Service.UpdateTrigger, first part: GetTrigger, then the request's status
\* and config make the updates and the schedule to queue.  The request
\* keeps what it read: the config (current), and for the properties the
\* trigger's open schedules and the instant of the preparation.
UpdateTriggerGet ==
    /\ upd.pc = "idle"
    /\ upd.served < MaxUpdates
    /\ \E id \in TriggerIds : \E status \in {"none", "active", "inactive"} :
       \E withConfig \in BOOLEAN :
         /\ status # "none" \/ withConfig
         /\ \E p \in (IF withConfig THEN Prepared(TriggerRow(id).type)
                                     ELSE {normalizeWebhookConfig(FALSE)}) :
              /\ p.ok
              /\ upd' = [pc |-> "update", trigger_id |-> id,
                         updates |-> [status |-> status, has_config |-> withConfig,
                                      config |-> IF withConfig THEN p.config
                                                               ELSE NoConfig],
                         fire_at |-> IF withConfig THEN p.fire_at ELSE NoFireAt,
                         served |-> upd.served + 1,
                         current |-> TriggerRow(id).config,
                         open |-> {s.id : s \in
                                     {x \in schedules :
                                        /\ x.trigger_id = id
                                        /\ x.status \in {"pending", "processing"}}},
                         at |-> now]
    /\ UNCHANGED <<ctxDone, now, triggers, schedules, eventLogs, bus,
                   nextSchedId,
                   nextEventId, engines, storeFaults, eng, nextTriggerId>>
    /\ api' = NoCall

\* The response of an UpdateTrigger request.
UpdateReturns(ret) ==
    [op |-> "update", trigger_id |-> upd.trigger_id, valid |-> TRUE,
     event_id |-> 0, ret |-> ret]

\* A faulty service: an update that sets the status to inactive cancels the
\* trigger's pending schedules.
UpdateTriggerStoreCancelling ==
    /\ upd.pc = "update"
    /\ \E dbOk \in StoreOutcomes :
         IF dbOk /\ UpdateTriggerRows(upd.trigger_id, upd.updates) > 0
         THEN /\ triggers' = UpdateTrigger(upd.trigger_id, upd.updates)
              /\ schedules' =
                   IF upd.updates.status = "inactive"
                   THEN {IF s.trigger_id = upd.trigger_id /\ s.status = "pending"
                            THEN [s EXCEPT !.status = "cancelled", !.updated_at = now]
                            ELSE s : s \in schedules}
                   ELSE schedules
              /\ IF upd.fire_at = NoFireAt
                 THEN upd' = IdleUpdate(upd.served) /\ api' = UpdateReturns("ok")
                 ELSE upd' = [upd EXCEPT !.pc = "upsert"] /\ api' = NoCall
         ELSE /\ triggers' = triggers
              /\ schedules' = schedules
              /\ upd' = IdleUpdate(upd.served)
              /\ api' = UpdateReturns(IF dbOk THEN "not_found" ELSE "error")
    /\ UNCHANGED <<ctxDone, now, eventLogs, bus, nextSchedId, nextEventId,
                   engines, storeFaults, eng, nextTriggerId>>

\* Service.UpdateTrigger, second part: store.UpdateTrigger; its error ends
\* the request, and so does its success when no schedule is to be queued.
UpdateTriggerStore ==
    /\ upd.pc = "update"
    /\ \E dbOk \in StoreOutcomes :
         IF dbOk /\ UpdateTriggerRows(upd.trigger_id, upd.updates) > 0
         THEN /\ triggers' = UpdateTrigger(upd.trigger_id, upd.updates)
              /\ IF upd.fire_at = NoFireAt
                 THEN upd' = IdleUpdate(upd.served) /\ api' = UpdateReturns("ok")
                 ELSE upd' = [upd EXCEPT !.pc = "upsert"] /\ api' = NoCall
         ELSE /\ triggers' = triggers
              /\ upd' = IdleUpdate(upd.served)
              /\ api' = UpdateReturns(IF dbOk THEN "not_found" ELSE "error")
    /\ UNCHANGED <<ctxDone, now, schedules, eventLogs, bus, nextSchedId,
                   nextEventId,
                   engines, storeFaults, eng, nextTriggerId>>

\* Service.UpdateTrigger, third part, when the config changed:
\* store.UpsertTriggerSchedule; the insert needs the trigger row.
UpdateTriggerUpsert ==
    /\ upd.pc = "upsert"
    /\ nextSchedId <= MaxSchedules
    /\ \E dbOk \in StoreOutcomes :
         IF dbOk /\ upd.trigger_id \in TriggerIds
         THEN /\ schedules' = UpsertTriggerSchedule(upd.trigger_id, upd.fire_at)
              /\ nextSchedId' = nextSchedId + 1
              /\ api' = UpdateReturns("ok")
         ELSE /\ schedules' = schedules
              /\ nextSchedId' = nextSchedId
              /\ api' = UpdateReturns("error")
    /\ upd' = IdleUpdate(upd.served)
    /\ UNCHANGED <<ctxDone, now, triggers, eventLogs, bus, nextEventId, engines,
                   storeFaults, eng, nextTriggerId>>

\* Service.DeleteTrigger: no row deleted is ErrTriggerNotFound.
DeleteTrigger ==
    /\ \E id \in RequestIds : \E dbOk \in StoreOutcomes :
         IF dbOk /\ id \in TriggerIds
         THEN /\ triggers' = DeleteTriggerRows(id)
              /\ schedules' = DeleteTriggerSchedules(id)
              /\ eventLogs' = DeleteTriggerEventLogs(id)
              /\ api' = [op |-> "delete", trigger_id |-> id, valid |-> TRUE,
                         event_id |-> 0, ret |-> "ok"]
         ELSE /\ UNCHANGED <<triggers, schedules, eventLogs>>
              /\ api' = [op |-> "delete", trigger_id |-> id, valid |-> TRUE,
                         event_id |-> 0,
                         ret |-> IF dbOk THEN "not_found" ELSE "error"]
    /\ UNCHANGED <<ctxDone, now, bus, nextSchedId, nextEventId, engines,
                   storeFaults, eng,
                   nextTriggerId, upd>>

\* TriggerHandler.TestTrigger: the handler answers 404 whatever the id.
TestTrigger ==
    /\ \E id \in RequestIds :
         api' = [op |-> "test", trigger_id |-> id, valid |-> TRUE,
                 event_id |-> 0, ret |-> "404"]
    /\ UNCHANGED <<ctxDone, now, triggers, schedules, eventLogs, bus,
                   nextSchedId,
                   nextEventId, engines, storeFaults, eng, nextTriggerId, upd>>

----------------------------------------------------------------------------
(* Webhook intake *)

\* What GetTrigger hands the handler for an id that is not stored.
NoTrigger ==
    [id |-> 0, type |-> "none", status |-> "none", config |-> NoConfig,
     updated_at |-> 0]

\* A faulty handler: the body is not validated against the schema.
WebhookVerdictUnvalidated(found, trigger, valid) ==
    IF ~found THEN "500"
    ELSE IF trigger.type # "webhook" THEN "400"
    ELSE IF trigger.status # "active" THEN "400"
    ELSE "fire"

\* A faulty handler: the status of the trigger is not looked at.
WebhookVerdictAnyStatus(found, trigger, valid) ==
    IF ~found THEN "500"
    ELSE IF trigger.type # "webhook" THEN "400"
    ELSE IF trigger.config.schema /\ ~valid THEN "400"
    ELSE "fire"

\* ReceiveWebhook up to the call of FireTrigger: the answer of each early
\* return, or "fire".  `found` is GetTrigger returning without error (it
\* returns ErrTriggerNotFound for an id that is not stored), `valid` the
\* body validating against a schema.
WebhookVerdict(found, trigger, valid) ==
    IF ~found THEN "500"
    ELSE IF trigger.type # "webhook" THEN "400"
    ELSE IF trigger.status # "active" THEN "400"
    ELSE IF trigger.config.schema /\ ~valid THEN "400"
    ELSE "fire"

\* ReceiveWebhook: GetTrigger and the checks; the request is answered at
\* once or goes on to FireTrigger with the trigger as read.
ReceiveWebhook(h) ==
    /\ eng[h].pc = "idle"
    /\ \E id \in RequestIds : \E valid \in BOOLEAN : \E dbOk \in StoreOutcomes :
         LET found == dbOk /\ id \in TriggerIds
             trigger == IF found THEN TriggerRow(id) ELSE NoTrigger
             verdict == WebhookVerdict(found, trigger, valid)
         IN  /\ eng' = IF verdict = "fire"
                       THEN [eng EXCEPT ![h] =
                               [pc |-> "fire",
                                batch |-> <<[Schedule |-> NoSchedule,
                                             Trigger |-> trigger]>>,
                                fire |-> NoFire, ret |-> "none"]]
                       ELSE eng
             /\ api' = [op |-> "webhook", trigger_id |-> id, valid |-> valid,
                        event_id |-> 0, ret |-> verdict]
    /\ UNCHANGED <<ctxDone, now, triggers, schedules, eventLogs, bus,
                   nextSchedId,
                   nextEventId, engines, storeFaults, nextTriggerId, upd>>

\* The answer after FireTrigger: 500 on its error, 202 with the event id
\* otherwise.
WebhookResponse(h) == IF eng[h].fire.err THEN "500" ELSE "202"

\* A faulty handler: a trigger that was fired is stamped as updated.
WebhookRespondStamping(h) ==
    /\ eng[h].pc = "complete"
    /\ eng' = [eng EXCEPT ![h] = IdleEngine]
    /\ api' = [op |-> "webhook", trigger_id |-> Head(eng[h].batch).Trigger.id,
               valid |-> TRUE,
               event_id |-> IF eng[h].fire.err THEN 0 ELSE eng[h].fire.event_id,
               ret |-> WebhookResponse(h)]
    /\ triggers' = {IF t.id = Head(eng[h].batch).Trigger.id
                       THEN [t EXCEPT !.updated_at = now] ELSE t : t \in triggers}
    /\ UNCHANGED <<ctxDone, now, schedules, eventLogs, bus, nextSchedId,
                   nextEventId, engines, storeFaults, nextTriggerId, upd>>

\* FireTrigger has returned: the handler writes its answer.
WebhookRespond(h) ==
    /\ eng[h].pc = "complete"
    /\ eng' = [eng EXCEPT ![h] = IdleEngine]
    /\ api' = [op |-> "webhook", trigger_id |-> Head(eng[h].batch).Trigger.id,
               valid |-> TRUE,
               event_id |-> IF eng[h].fire.err THEN 0 ELSE eng[h].fire.event_id,
               ret |-> WebhookResponse(h)]
    /\ UNCHANGED <<ctxDone, now, triggers, schedules, eventLogs, bus,
                   nextSchedId,
                   nextEventId, engines, storeFaults, nextTriggerId, upd>>

----------------------------------------------------------------------------
(* The scheduler over a store of scheduled triggers as the trigger service *)
(* creates them: one schedule row per trigger.                             *)

ScheduledTrigger(id, type, cron, tz, fireAt) ==
    [id |-> id, type |-> type, status |-> "active",
     config |-> [cron |-> IF type = "cron_scheduled" THEN cron ELSE 0,
                 tz |-> tz,
                 run_at |-> IF type = "time_scheduled" THEN fireAt ELSE 0,
                 schema |-> FALSE],
     updated_at |-> 0]

FirstSchedule(id, triggerID, fireAt, attempts) ==
    [id |-> id, trigger_id |-> triggerID, fire_at |-> fireAt, status |-> "pending",
     attempt_count |-> attempts, updated_at |-> 0]

\* Two scheduled triggers, the first of either type and the second a cron
\* trigger, each with its first schedule row.
InitStore ==
    \E type1 \in {"time_scheduled", "cron_scheduled"} :
    \E cron \in CronExprs, tz \in TzOffsets :
    \E fireAt1 \in 0..1 :
       /\ triggers = {ScheduledTrigger(1, type1, cron, tz, fireAt1),
                      ScheduledTrigger(2, "cron_scheduled", cron, tz, 1)}
       /\ schedules = {FirstSchedule(1, 1, fireAt1, 0),
                       FirstSchedule(2, 2, 1, 0)}
       /\ nextSchedId = 3
       /\ nextTriggerId = 3

\* One scheduled trigger of either type with its schedule row, which has
\* been attempted `attempts` times.
InitStoreOne(attempts) ==
    \E type1 \in {"time_scheduled", "cron_scheduled"} :
    \E cron \in CronExprs, tz \in TzOffsets :
       /\ triggers = {ScheduledTrigger(1, type1, cron, tz, 0)}
       /\ schedules = {FirstSchedule(1, 1, 0, attempts)}
       /\ nextSchedId = 2
       /\ nextTriggerId = 2

InitRest ==
    /\ now = 0
    /\ eventLogs = {}
    /\ bus = <<>>
    /\ nextEventId = 1
    /\ eng = [e \in Callers |-> IdleEngine]
    /\ upd = IdleUpdate(0)
    /\ api = NoCall
    /\ ctxDone = {}

\* One scheduler process, as the platform is deployed; the store available.
InitSched == InitStore /\ InitRest /\ engines = {1} /\ storeFaults = FALSE

\* One scheduler process; calls to the store may fail.
InitFaults == InitStore /\ InitRest /\ engines = {1} /\ storeFaults = TRUE

\* One scheduler process and a schedule row one attempt short of the retry
\* ceiling, as TestProcessSchedule_MaxRetriesReached seeds it.
InitCeiling ==
    InitStoreOne(RetryCeiling - 1) /\ InitRest /\ engines = {1} /\ storeFaults = FALSE

\* Two scheduler processes over the same store, the store being available.
InitTwo == InitStoreOne(0) /\ InitRest /\ engines = {1, 2} /\ storeFaults = FALSE

EngineNext ==
    \E e \in EngineIds :
        \/ ProcessSchedules(e)
        \/ Claim(e)
        \/ FireCreateLog(e)
        \/ FirePublish(e)
        \/ FirePatch(e)
        \/ Complete(e)
        \/ PostDeactivate(e)
        \/ PostCreateNext(e)
        \/ NextInBatch(e)

NextSched == Tick \/ EngineNext

SpecSched == InitSched /\ [][NextSched]_vars

SpecFaults == InitFaults /\ [][NextSched]_vars

SpecCeiling == InitCeiling /\ [][NextSched]_vars

SpecTwo == InitTwo /\ [][NextSched]_vars

\* A scheduler process started over the store a crashed one left: the
\* schedule of the second trigger was claimed and never completed.
InitRestart ==
    /\ \E type1 \in {"time_scheduled", "cron_scheduled"} :
       \E cron \in CronExprs, tz \in TzOffsets :
          /\ triggers = {ScheduledTrigger(1, type1, cron, tz, 0),
                         ScheduledTrigger(2, "cron_scheduled", cron, tz, 0)}
          /\ schedules = {FirstSchedule(1, 1, 0, 0),
                          [FirstSchedule(2, 2, 0, 0)
                             EXCEPT !.status = "processing"]}
          /\ nextSchedId = 3
          /\ nextTriggerId = 3
    /\ InitRest
    /\ engines = {1}
    /\ storeFaults = FALSE

SpecRestart == InitRestart /\ [][NextSched]_vars /\ WF_vars(EngineNext)

\* The scheduler alone, its loop going on: the ticker keeps firing and a
\* tick that has begun runs to its end.
SpecLive == InitSched /\ [][NextSched]_vars /\ WF_vars(EngineNext)

\* One scheduler process that is sent the shutdown signal at any moment.
ShutdownNext == \E e \in EngineIds : Cancel(e) \/ RunReturn(e)

NextShutdown == Tick \/ EngineNext \/ ShutdownNext

SpecShutdown == InitSched /\ [][NextShutdown]_vars

----------------------------------------------------------------------------
(* The platform: the API, the webhook intake and one scheduler process over *)
(* a store that starts empty.                                              *)

Init ==
    /\ triggers = {}
    /\ schedules = {}
    /\ nextSchedId = 1
    /\ nextTriggerId = 1
    /\ InitRest
    /\ engines = {1}
    /\ storeFaults = FALSE

FireNext(e) == FireCreateLog(e) \/ FirePublish(e) \/ FirePatch(e)

WebhookNext ==
    \E h \in WebhookHandlers :
        \/ ReceiveWebhook(h)
        \/ FireNext(h)
        \/ WebhookRespond(h)

ServiceNext ==
    \/ CreateTrigger
    \/ UpdateTriggerGet
    \/ UpdateTriggerStore
    \/ UpdateTriggerUpsert
    \/ DeleteTrigger
    \/ TestTrigger

Next == Tick \/ EngineNext \/ ServiceNext \/ WebhookNext

Spec == Init /\ [][Next]_vars

----------------------------------------------------------------------------
(* The API and the webhook intake with no scheduler process running, over  *)
(* a store whose calls may fail.  The store starts empty, or holds one     *)
(* scheduled trigger whose schedule a scheduler had claimed when it        *)
(* stopped.                                                                *)

InitStoreClaimed ==
    \E type1 \in {"time_scheduled", "cron_scheduled"} :
       /\ triggers = {ScheduledTrigger(1, type1, 2, 0, 0)}
       /\ schedules = {[FirstSchedule(1, 1, 0, 0) EXCEPT !.status = "processing"]}
       /\ nextSchedId = 2
       /\ nextTriggerId = 2

InitService ==
    /\ \/ InitStoreClaimed
       \/ triggers = {} /\ schedules = {} /\ nextSchedId = 1 /\ nextTriggerId = 1
    /\ InitRest
    /\ engines = {}
    /\ storeFaults = TRUE

NextService == Tick \/ ServiceNext \/ WebhookNext

SpecService == InitService /\ [][NextService]_vars

\* The API alone, sent requests its preparation refuses as well.
NextValidation ==
    Tick \/ ServiceNext \/ CreateTriggerInvalid \/ UpdateTriggerInvalid

SpecValidation == InitService /\ [][NextValidation]_vars

\* The scheduler and UpdateTrigger requests over one scheduled trigger that
\* is active, or that an earlier update has set to inactive, its first
\* schedule pending.
InitStatus ==
    /\ \E type1 \in {"time_scheduled", "cron_scheduled"} :
       \E status \in {"active", "inactive"}, fireAt \in 0..1 :
          /\ triggers = {[ScheduledTrigger(1, type1, 1, 0, fireAt)
                            EXCEPT !.status = status]}
          /\ schedules = {FirstSchedule(1, 1, fireAt, 0)}
          /\ nextSchedId = 2
          /\ nextTriggerId = 2
    /\ InitRest
    /\ engines = {1}
    /\ storeFaults = FALSE

NextStatus ==
    \/ Tick
    \/ EngineNext
    \/ UpdateTriggerGet
    \/ UpdateTriggerStore
    \/ UpdateTriggerUpsert

SpecStatus == InitStatus /\ [][NextStatus]_vars

----------------------------------------------------------------------------
(* Retention: the webhook intake firing one active webhook trigger while   *)
(* time passes and the two retention events of the database run.           *)

InitRetention ==
    /\ triggers = {[id |-> 1, type |-> "webhook", status |-> "active",
                    config |-> normalizeWebhookConfig(FALSE).config,
                    updated_at |-> 0]}
    /\ schedules = {}
    /\ nextSchedId = 1
    /\ nextTriggerId = 2
    /\ InitRest
    /\ engines = {}
    /\ storeFaults = FALSE

NextRetention == Tick \/ Elapse \/ ArchiveJob \/ DeleteJob \/ WebhookNext

SpecRetention == InitRetention /\ [][NextRetention]_vars

\* The same, the API deleting the trigger at any moment.
NextLogs == NextRetention \/ DeleteTrigger

SpecLogs == InitRetention /\ [][NextLogs]_vars

----------------------------------------------------------------------------
(* The webhook intake beside the scheduler: an active webhook trigger and a *)
(* scheduled trigger with its first schedule.                              *)

InitIntake ==
    /\ \E schema \in BOOLEAN : \E type2 \in {"time_scheduled", "cron_scheduled"} :
          /\ triggers = {[id |-> 1, type |-> "webhook", status |-> "active",
                          config |-> normalizeWebhookConfig(schema).config,
                          updated_at |-> 0],
                         ScheduledTrigger(2, type2, 1, 0, 1)}
          /\ schedules = {FirstSchedule(1, 2, 1, 0)}
          /\ nextSchedId = 2
          /\ nextTriggerId = 3
    /\ InitRest
    /\ engines = {1}
    /\ storeFaults = FALSE

NextIntake == Tick \/ WebhookNext \/ EngineNext

SpecIntake == InitIntake /\ [][NextIntake]_vars

----------------------------------------------------------------------------
(* Notions the properties share *)

\* The schedule and trigger, as read with the batch, that engine e is
\* processing.
Cur(e) == Head(eng[e].batch)

\* processSchedule of engine e has returned.
Returned(e) == e \in engines /\ eng[e].pc = "done"

\* The rows of the schedule engine e is processing (none if deleted).
CurRows(e) == {s \in schedules : s.id = Cur(e).Schedule.id}

PendingOf(triggerID) ==
    {s \in schedules : s.trigger_id = triggerID /\ s.status = "pending"}

FailureLogsOf(triggerID) ==
    {l \in eventLogs : l.trigger_id = triggerID /\ l.execution_status = "failure"}

PublishedOf(triggerID) ==
    {i \in 1..Len(bus) : bus[i].trigger_id = triggerID}

----------------------------------------------------------------------------
(* C1..C10 *)

\* C1: a claim succeeds only as the transition pending -> processing: an
\* engine whose claim goes through (it moves on to fire) found the row
\* pending; every other claimer finds it claimed and skips it.
C1_ClaimOnlyFromPending ==
    [][\A e \in EngineIds :
          (eng[e].pc = "claim" /\ eng'[e].pc = "fire")
             => \A s \in CurRows(e) : s.status = "pending"]_vars

\* C2: a schedule is marked completed only when the FireTrigger call of
\* that claim returned success.
C2_CompletedOnlyAfterPublish ==
    \A e \in engines :
       (eng[e].pc = "post" /\ \A s \in CurRows(e) : s.status = "completed")
          => ~eng[e].fire.err

\* C3: when FireTrigger fails for a claimed schedule with
\* attempt_count + 1 < M, processSchedule returns an error and the schedule
\* is pending again with attempt_count one greater.
C3_FailureRevertsToPending ==
    \A e \in engines :
       (/\ Returned(e)
        /\ eng[e].ret # "claim_failed"
        /\ eng[e].fire.err
        /\ Cur(e).Schedule.attempt_count + 1 < RetryCeiling)
          => /\ eng[e].ret # "nil"
             /\ \A s \in CurRows(e) :
                   /\ s.status = "pending"
                   /\ s.attempt_count = Cur(e).Schedule.attempt_count + 1

\* C4: when FireTrigger fails for a claimed schedule with
\* attempt_count + 1 >= M, processSchedule returns an error, the schedule is
\* cancelled with attempt_count unchanged, and no next occurrence is queued.
C4_CeilingCancels ==
    \A e \in engines :
       (/\ Returned(e)
        /\ eng[e].ret # "claim_failed"
        /\ eng[e].fire.err
        /\ Cur(e).Schedule.attempt_count + 1 >= RetryCeiling)
          => /\ eng[e].ret # "nil"
             /\ \A s \in CurRows(e) :
                   /\ s.status = "cancelled"
                   /\ s.attempt_count = Cur(e).Schedule.attempt_count
             /\ PendingOf(Cur(e).Trigger.id) = {}

\* C5: with a publisher that never accepts an event of the trigger, a
\* schedule leaves pending/processing only as cancelled, after exactly M
\* failed fires (M failure logs reference the trigger).
C5_ExactlyMAttempts ==
    \A s \in schedules :
       (s.status \in {"completed", "cancelled"} /\ PublishedOf(s.trigger_id) = {})
          => /\ s.status = "cancelled"
             /\ Cardinality(FailureLogsOf(s.trigger_id)) = RetryCeiling

\* C6: when FireTrigger has returned an event id, exactly one event log has
\* that id; it says success if the publish succeeded, and failure with an
\* error message if the publish failed (FireTrigger then returns the error
\* with the id).
C6_FiringAtomicity ==
    \A e \in engines :
       (eng[e].pc = "complete" /\ eng[e].fire.event_id # 0)
          => /\ Cardinality({l \in eventLogs : l.id = eng[e].fire.event_id}) = 1
             /\ \A l \in eventLogs :
                   l.id = eng[e].fire.event_id =>
                      IF eng[e].fire.err
                      THEN l.execution_status = "failure" /\ l.error_message # ""
                      ELSE l.execution_status = "success"

\* C7: the log is persisted before any publish: an event reaches the bus
\* only when an event log with its id is already stored, and a FireTrigger
\* whose CreateEventLog fails returns an error with no id, having stored no
\* log and published nothing.
C7_LogBeforePublish ==
    [][/\ bus' # bus =>
            \E l \in eventLogs : l.id = bus'[Len(bus')].event_id
       /\ \A e \in Callers :
            (eng[e].pc = "fire" /\ eng'[e].pc = "complete")
               => /\ eng'[e].fire = [event_id |-> 0, err |-> TRUE]
                  /\ eventLogs' = eventLogs
                  /\ bus' = bus
       /\ \A e \in Callers :
            (eng[e].pc = "fire" /\ eng'[e].pc = "publish")
               => \E l \in eventLogs' : l.id = eng'[e].fire.event_id]_vars

\* A FireTrigger whose CreateEventLog failed has returned, after an earlier
\* event was logged and published.
C7_Witness ==
    /\ bus # <<>>
    /\ \E e \in engines :
         eng[e].pc = "complete" /\ eng[e].fire = [event_id |-> 0, err |-> TRUE]

\* C8: when processSchedule has fired a time_scheduled trigger successfully,
\* its schedule is completed, the trigger is inactive and has no pending
\* schedule; the scheduler publishes at most one event for such a trigger.
C8_OneShotTerminal ==
    /\ \A e \in engines :
         (/\ Returned(e)
          /\ eng[e].ret = "nil"
          /\ ~eng[e].fire.err
          /\ Cur(e).Trigger.type = "time_scheduled")
            => /\ \A s \in CurRows(e) : s.status = "completed"
               /\ CurRows(e) # {}
               /\ TriggerRow(Cur(e).Trigger.id).status = "inactive"
               /\ PendingOf(Cur(e).Trigger.id) = {}
    /\ \A t \in triggers :
         t.type = "time_scheduled" => Cardinality(PublishedOf(t.id)) <= 1

\* processSchedule has returned nil after publishing the event of a
\* time_scheduled trigger.
C8_Witness ==
    \E e \in engines :
       /\ Returned(e)
       /\ eng[e].ret = "nil"
       /\ ~eng[e].fire.err
       /\ Cur(e).Trigger.type = "time_scheduled"
       /\ PublishedOf(Cur(e).Trigger.id) # {}

\* The instant t is the first one after `from` that "*/cronExpr" matches in
\* the zone at offset tz.
IsNextMatch(t, cronExpr, tz, from) ==
    /\ t > from
    /\ (t + tz) % cronExpr = 0
    /\ \A u \in (from + 1)..(t - 1) : (u + tz) % cronExpr # 0

\* C9: when processSchedule has fired schedule S of an active cron trigger
\* successfully, S is completed and the trigger has exactly one pending
\* schedule, with attempt_count 0 and fire_at the first match of the
\* trigger's expression, in its zone, after the instant at which the engine
\* queued it (the row's creation time).
C9_CronAdvance ==
    \A e \in engines :
       (/\ Returned(e)
        /\ eng[e].ret = "nil"
        /\ ~eng[e].fire.err
        /\ Cur(e).Trigger.type = "cron_scheduled")
          => /\ \A s \in CurRows(e) : s.status = "completed"
             /\ CurRows(e) # {}
             /\ Cardinality(PendingOf(Cur(e).Trigger.id)) = 1
             /\ \A n \in PendingOf(Cur(e).Trigger.id) :
                   /\ n.id # Cur(e).Schedule.id
                   /\ n.attempt_count = 0
                   /\ IsNextMatch(n.fire_at, Cur(e).Trigger.config.cron,
                                  Cur(e).Trigger.config.tz,
                                  n.updated_at)

\* processSchedule has returned nil after publishing the event of a cron
\* trigger in a zone other than UTC.
C9_Witness ==
    \E e \in engines :
       /\ Returned(e)
       /\ eng[e].ret = "nil"
       /\ ~eng[e].fire.err
       /\ Cur(e).Trigger.type = "cron_scheduled"
       /\ Cur(e).Trigger.config.tz # 0
       /\ PublishedOf(Cur(e).Trigger.id) # {}

\* The schedules of a trigger that are pending or processing.
OpenOf(triggerID) ==
    {s \in schedules : s.trigger_id = triggerID
                          /\ s.status \in {"pending", "processing"}}

\* C10: in every reachable state, whatever the interleaving of
\* CreateTrigger, UpdateTrigger, DeleteTrigger, webhook fires and scheduler
\* ticks: a time_scheduled trigger has at most one schedule pending or
\* processing, a cron trigger at most one schedule pending, and a webhook
\* trigger has no schedule row.
C10_SchedulesPerTrigger ==
    \A t \in triggers :
       /\ t.type = "time_scheduled" => Cardinality(OpenOf(t.id)) <= 1
       /\ t.type = "cron_scheduled" => Cardinality(PendingOf(t.id)) <= 1
       /\ t.type = "webhook" => \A s \in schedules : s.trigger_id # t.id

----------------------------------------------------------------------------
(* C11..C20 *)

\* The step in which the UpdateTrigger request in flight returns ret.
UpdateReturnsStep(ret) ==
    /\ upd.pc # "idle"
    /\ api'.op = "update"
    /\ api'.ret = ret

\* C11: when an UpdateTrigger with a new config on a scheduled trigger
\* succeeds, every schedule of the trigger that was pending or processing
\* when the call began is cancelled, and the trigger has exactly one pending
\* schedule, a new row, whose fire_at is the next instant of the new config
\* (run_at, or the first match of the expression after the request's
\* preparation).
C11_UpdateReschedules ==
    [][(UpdateReturnsStep("ok") /\ upd.updates.has_config /\ upd.fire_at # NoFireAt)
         => LET id == upd.trigger_id
                cfg == upd.updates.config
                pending == {s \in schedules' :
                              s.trigger_id = id /\ s.status = "pending"}
            IN  /\ \A i \in upd.open :
                      \E s \in schedules' : s.id = i /\ s.status = "cancelled"
                /\ Cardinality(pending) = 1
                /\ \A s \in pending :
                      /\ \A o \in schedules : o.id # s.id
                      /\ IF cfg.cron = 0
                         THEN s.fire_at = cfg.run_at
                         ELSE IsNextMatch(s.fire_at, cfg.cron, cfg.tz, upd.at)]_vars

\* An UpdateTrigger with a new config has returned success for a trigger
\* that has a cancelled schedule.
C11_Witness ==
    /\ api.op = "update"
    /\ api.ret = "ok"
    /\ \E s \in schedules : s.trigger_id = api.trigger_id /\ s.status = "cancelled"
    /\ \E s \in schedules : s.trigger_id = api.trigger_id /\ s.status = "pending"

\* C12: store.CreateTrigger is atomic: when it succeeds the trigger row and,
\* for a scheduled trigger, its first schedule row are both stored; when it
\* fails neither table has changed.
C12_CreateAtomic ==
    [][api'.op = "create"
         => IF api'.ret = "ok"
            THEN /\ \E t \in triggers' :
                      /\ t.id = api'.trigger_id
                      /\ t \notin triggers
                      /\ (t.type # "webhook") =
                           (\E s \in schedules' :
                               s.trigger_id = t.id /\ s \notin schedules)
            ELSE triggers' = triggers /\ schedules' = schedules]_vars

\* A CreateTrigger has failed in the store.
C12_Witness == api.op = "create" /\ api.ret = "error"

\* C13: UpdateTrigger with a config change is atomic with respect to the
\* schedule: when UpsertTriggerSchedule fails for a stored trigger, the
\* trigger's config is the one it had when the request began and its
\* schedules are unchanged.
C13_UpdateAtomic ==
    [][(/\ UpdateReturnsStep("error")
        /\ upd.pc = "upsert"
        /\ upd.trigger_id \in TriggerIds)
         => /\ \A t \in triggers' :
                  t.id = upd.trigger_id => t.config = upd.current
            /\ schedules' = schedules]_vars

\* A step in which handler h reads the trigger of a webhook request and
\* either answers at once or calls FireTrigger.
WebhookIntakeStep(h) == eng[h].pc = "idle" /\ api'.op = "webhook"

\* A step in which handler h answers a request whose FireTrigger returned.
WebhookAnswerStep(h) == eng[h].pc = "complete" /\ api'.op = "webhook"

C15_WebhookNotFound ==
    [][\A h \in WebhookHandlers :
         (WebhookIntakeStep(h) /\ api'.trigger_id \notin TriggerIds)
         => /\ api'.ret = "404"
            /\ eng' = eng /\ eventLogs' = eventLogs /\ bus' = bus
      ]_vars

\* C16: a webhook request to a stored trigger that is not of type webhook,
\* or not active, is answered 400 and does not call FireTrigger: no event
\* log is written and nothing is published.
C16_WebhookRejected ==
    [][\A h \in WebhookHandlers :
         (/\ WebhookIntakeStep(h)
          /\ api'.trigger_id \in TriggerIds
          /\ \/ TriggerRow(api'.trigger_id).type # "webhook"
             \/ TriggerRow(api'.trigger_id).status # "active")
         => /\ api'.ret = "400"
            /\ eng' = eng /\ eventLogs' = eventLogs /\ bus' = bus
      ]_vars

\* A request to a webhook trigger that is not active was answered 400.
C16_Witness ==
    /\ api.op = "webhook" /\ api.ret = "400"
    /\ api.trigger_id \in TriggerIds
    /\ TriggerRow(api.trigger_id).type = "webhook"
    /\ TriggerRow(api.trigger_id).status # "active"

\* C17: TestTrigger on a stored trigger is not answered not-found and
\* writes exactly one event log, a test run of source manual-test, and one
\* event, leaving schedules and triggers as they were; on an id that is not
\* stored it answers not-found.
C17_TestTriggerFires ==
    [][api'.op = "test"
       => IF api'.trigger_id \in TriggerIds
          THEN /\ api'.ret # "404"
               /\ Cardinality(eventLogs' \ eventLogs) = 1
               /\ \A l \in eventLogs' \ eventLogs :
                    l.is_test_run /\ l.source = "manual-test"
               /\ Len(bus') = Len(bus) + 1
               /\ schedules' = schedules /\ triggers' = triggers
          ELSE api'.ret = "404"
      ]_vars

\* The ids of the event logs a read returns: GetEventLog of any id, and
\* ListEventLogs under any filter.
ReadableIds ==
    {id \in 1..MaxEvents : GetEventLog(id) # NoEventLog}
    \cup {l.id : l \in UNION {ListEventLogs(f) : f \in RetentionFilters}}

\* C18: retention only moves forward.  Over every step (archive job, delete
\* job, fire, status patch): an event log that is archived is not active
\* afterwards, and an id that was given to an event log and has no row any
\* more is returned by no read afterwards.
C18_RetentionMonotone ==
    [][/\ \A l \in eventLogs :
            l.retention_status = "archived"
            => (GetEventLog(l.id)').retention_status \in {"archived", "none"}
       /\ \A id \in 1..MaxEvents :
            (id < nextEventId /\ id \notin ReadableIds)
            => id \notin ReadableIds'
      ]_vars

\* An archived event log whose status was patched after it was archived,
\* next to an id whose row the delete job has removed.
C18_Witness ==
    /\ \E l \in eventLogs :
         l.retention_status = "archived" /\ l.execution_status = "failure"
    /\ \E id \in 1..MaxEvents : id < nextEventId /\ id \notin ReadableIds

\* C19: a run of the delete job removes exactly the event logs whose
\* fired_at is before now - delete_age, whatever their retention_status,
\* and changes no other row; a run of the archive job turns exactly the
\* active rows whose fired_at is before now - archive_age into archived
\* rows, and changes or removes no other row.
C19_RetentionJobs ==
    [][/\ api'.op = "delete_old_events"
          => eventLogs' = {l \in eventLogs : l.fired_at >= now - DeleteAge}
       /\ api'.op = "archive_old_events"
          => /\ {l.id : l \in eventLogs'} = {l.id : l \in eventLogs}
             /\ \A l \in eventLogs :
                  IF l.retention_status = "active" /\ l.fired_at < now - ArchiveAge
                  THEN GetEventLog(l.id)' = [l EXCEPT !.retention_status = "archived"]
                  ELSE GetEventLog(l.id)' = l
      ]_vars

\* The delete job has just run: an id has lost its row, and the rows left
\* are active ones that are not older than the threshold.
C19_Witness ==
    /\ api.op = "delete_old_events"
    /\ \E id \in 1..MaxEvents : id < nextEventId /\ id \notin ReadableIds
    /\ eventLogs # {}
    /\ \A l \in eventLogs :
         l.retention_status = "active" /\ l.fired_at >= now - DeleteAge

\* C20: DeleteTrigger of a stored trigger removes the trigger row and every
\* schedule row of the trigger, whatever its status, and no other trigger
\* or schedule; it removes no event log: each log of the trigger is kept
\* with trigger_id null and its other fields as they were, and the other
\* logs are untouched.  DeleteTrigger of an id that is not stored answers
\* not-found and changes no table.
C20_DeleteTrigger ==
    [][api'.op = "delete"
       => LET id == api'.trigger_id
          IN  IF id \in TriggerIds
              THEN /\ api'.ret = "ok"
                   /\ triggers' = {t \in triggers : t.id # id}
                   /\ schedules' = {s \in schedules : s.trigger_id # id}
                   /\ eventLogs' =
                        {IF l.trigger_id = id THEN [l EXCEPT !.trigger_id = 0]
                                              ELSE l : l \in eventLogs}
                   /\ Cardinality(eventLogs') = Cardinality(eventLogs)
              ELSE /\ api'.ret = "not_found"
                   /\ triggers' = triggers
                   /\ schedules' = schedules
                   /\ eventLogs' = eventLogs
      ]_vars

\* A trigger that had fired has just been deleted: its schedules are gone
\* and its event log is kept without the reference.
C20_Witness ==
    /\ api.op = "delete" /\ api.ret = "ok"
    /\ nextSchedId > 1
    /\ \A s \in schedules : s.trigger_id # api.trigger_id
    /\ \E l \in eventLogs : l.trigger_id = 0 /\ l.source = "scheduler"

----------------------------------------------------------------------------
(* C21..C30 *)

\* The event logs of a trigger written by the scheduler whose publish went
\* through.
SuccessLogsOf(triggerID) ==
    {l \in eventLogs : /\ l.trigger_id = triggerID
                       /\ l.source = "scheduler"
                       /\ l.execution_status = "success"}

\* C21: with two scheduler engines over one store, a time_scheduled
\* trigger (its one schedule row) is never published twice: at most one
\* event of the trigger is on the bus and at most one success event log of
\* source scheduler exists for it.
C21_TwoEnginesFireOnce ==
    \A t \in triggers :
       t.type = "time_scheduled"
       => /\ Cardinality(PublishedOf(t.id)) <= 1
          /\ Cardinality(SuccessLogsOf(t.id)) <= 1

\* C22: once Run of a scheduler process has returned after its context
\* was cancelled, no schedule row that process claimed is left processing
\* (the process is the only one, and every row started pending).
C22_RunReturnsClean ==
    \A e \in engines :
       eng[e].pc = "stopped"
       => \A s \in schedules : s.status # "processing"

\* C23: all events published for one trigger are on one partition of the
\* bus, so that the bus keeps them in the order of their publication.
C23_OnePartitionPerTrigger ==
    \A i, j \in 1..Len(bus) :
       bus[i].trigger_id = bus[j].trigger_id
       => bus[i].partition = bus[j].partition

\* C24: the scheduler does not fire a schedule whose trigger is inactive
\* when FireTrigger is called: in the step in which an engine's FireTrigger
\* makes its first call for a stored trigger that is inactive, no event
\* log is written (nothing is published either: FireTrigger goes no
\* further) and the schedule is pending.
C24_InactiveNotFired ==
    [][\A e \in EngineIds :
         (/\ eng[e].pc = "fire" /\ eng'[e].pc # "fire"
          /\ Cur(e).Trigger.id \in TriggerIds
          /\ TriggerRow(Cur(e).Trigger.id).status = "inactive")
         => /\ eventLogs' = eventLogs
            /\ eng'[e].pc # "publish"
            /\ \A s \in CurRows(e) : s.status = "pending"
      ]_vars

\* C25: a CreateTrigger or UpdateTrigger request refused by the
\* preparation of the request (blank name, missing config field, malformed
\* or past run_at, invalid cron expression, unknown timezone, unsupported
\* type) is answered 400, never 500, and no table changes.
C25_ValidationErrors ==
    [][(api'.op \in {"create", "update"} /\ ~api'.valid)
       => /\ api'.ret = "400"
          /\ triggers' = triggers
          /\ schedules' = schedules
          /\ eventLogs' = eventLogs
      ]_vars

\* C26: when CreateTrigger has just succeeded, GetTrigger's
\* nextScheduledRun of the new trigger is its first fire: run_at for a
\* time_scheduled trigger, the first match of the expression in the
\* trigger's zone after the clock reading of the creation for a cron
\* trigger; a webhook trigger has no schedule row and no nextScheduledRun.
C26_NextScheduledRun ==
    (api.op = "create" /\ api.ret = "ok")
    => LET t == TriggerRow(api.trigger_id)
           next == getNextSchedule(api.trigger_id)
       IN  /\ api.trigger_id \in TriggerIds
           /\ t.type = "time_scheduled" => next = t.config.run_at
           /\ t.type = "cron_scheduled"
              => IsNextMatch(next, t.config.cron, t.config.tz, now)
           /\ t.type = "webhook"
              => /\ next = NoFireAt
                 /\ \A s \in schedules : s.trigger_id # t.id

\* A cron trigger in a zone off UTC has just been created, its first fire
\* not at the creation instant.
C26_Witness ==
    /\ api.op = "create" /\ api.ret = "ok"
    /\ api.trigger_id \in TriggerIds
    /\ TriggerRow(api.trigger_id).type = "cron_scheduled"
    /\ TriggerRow(api.trigger_id).config.tz # 0
    /\ getNextSchedule(api.trigger_id) > now

\* The schedules GetDueSchedules is to return: pending, due, and of an
\* active trigger.
DueIds ==
    {s.id : s \in {x \in schedules :
                     /\ x.status = "pending"
                     /\ x.fire_at <= now
                     /\ \E t \in triggers :
                          t.id = x.trigger_id /\ t.status = "active"}}

\* The model has run out of ids for event logs or schedule rows.
IdsExhausted == nextEventId > MaxEvents \/ nextSchedId > MaxSchedules

\* C27: with one scheduler, a working store and fewer due schedules than
\* the batch limit, a tick takes every schedule that is pending, due and of
\* an active trigger into its batch, claims each of them, and has left none
\* of them processing when it ends; and with the loop going on, every such
\* schedule is eventually completed or cancelled.
C27_DueSchedulesFired ==
    /\ [][\A e \in EngineIds :
            /\ (eng[e].pc = "idle" /\ eng'[e].pc = "claim")
               => /\ Cardinality(DueIds) <= BatchLimit
                  /\ {eng'[e].batch[i].Schedule.id :
                        i \in 1..Len(eng'[e].batch)} = DueIds
            /\ (eng[e].pc = "claim" /\ Cur(e).Schedule.id \in DueIds)
               => eng'[e].pc \in {"claim", "fire"}
            /\ (eng[e].pc # "idle" /\ eng'[e].pc = "idle")
               => \A s \in schedules' : s.status # "processing"
        ]_vars
    /\ \A id \in 1..MaxSchedules :
          (id \in DueIds)
          ~> \/ \E s \in schedules :
                  s.id = id /\ s.status \in {"completed", "cancelled"}
             \/ IdsExhausted

\* A tick over two due schedules has ended with both completed, ids to
\* spare.
C27_Witness ==
    /\ eng[1].pc = "idle"
    /\ Cardinality({s \in schedules : s.status = "completed"}) >= 2
    /\ ~IdsExhausted

\* C28: when the scheduler ends the processing of a cron schedule whose
\* trigger is inactive in the store at that moment (deactivated after the
\* batch was read included), it queues no next schedule for the trigger.
C28_InactiveCronNotRequeued ==
    [][\A e \in EngineIds :
         (/\ eng[e].pc = "post" /\ eng'[e].pc = "done"
          /\ Cur(e).Trigger.type = "cron_scheduled"
          /\ Cur(e).Trigger.id \in TriggerIds
          /\ TriggerRow(Cur(e).Trigger.id).status = "inactive")
         => /\ \A s \in CurRows(e) : s.status = "completed"
            /\ {s.id : s \in schedules'} \subseteq {s.id : s \in schedules}
      ]_vars

\* C29: completed and cancelled are terminal: no step of the scheduler or
\* of the trigger service changes the status of a schedule row that is
\* completed or cancelled.
C29_TerminalStatuses ==
    [][\A s \in schedules :
         s.status \in {"completed", "cancelled"}
         => \A x \in schedules' : x.id = s.id => x.status = s.status
      ]_vars

\* C30: a schedule row a crashed scheduler left processing does not stay
\* so: with a scheduler running again it eventually leaves processing (it
\* is swept back to pending and reclaimed), unless the model runs out of
\* ids first.
C30_OrphanRecovered ==
    \A id \in 1..MaxSchedules :
       (\E s \in schedules : s.id = id /\ s.status = "processing")
       ~> \/ \E s \in schedules : s.id = id /\ s.status # "processing"
          \/ IdsExhausted

----------------------------------------------------------------------------
(* C31..C40 *)

\* The rows of a batch are in fire_at ascending order.
SortedByFireAt(batch) ==
    \A i, j \in 1..Len(batch) :
       i < j => batch[i].Schedule.fire_at <= batch[j].Schedule.fire_at

\* The ids of the schedules of a batch.
BatchIds(batch) == {batch[i].Schedule.id : i \in 1..Len(batch)}

\* C31: GetDueSchedules under any limit returns pending, due schedules of
\* active triggers, each once, in fire_at ascending order, as many as the
\* limit allows and the earliest of them.  A tick begins with the batch
\* GetDueSchedules returned: at most the batch limit of rows, each a stored
\* row that is due, pending and of an active trigger at that moment, joined
\* with its trigger, in fire_at ascending order.  The engine claims only
\* the head of its batch and drops it when processSchedule has returned,
\* and it reads a new batch only when the one before is used up.
C31_TickBatch ==
    /\ [](\A limit \in 0..MaxSchedules : \A seq \in GetDueSchedules(limit) :
            /\ Len(seq) = Min(limit, Cardinality(DueIds))
            /\ Cardinality(BatchIds(seq)) = Len(seq)
            /\ BatchIds(seq) \subseteq DueIds
            /\ SortedByFireAt(seq)
            /\ \A s \in schedules :
                 (s.id \in DueIds \ BatchIds(seq))
                 => \A i \in 1..Len(seq) : seq[i].Schedule.fire_at <= s.fire_at)
    /\ [][\A e \in EngineIds :
            /\ (eng[e].pc = "idle" /\ eng'[e].pc = "claim")
               => LET batch == eng'[e].batch
                  IN  /\ Len(batch) <= BatchLimit
                      /\ SortedByFireAt(batch)
                      /\ \A i \in 1..Len(batch) :
                           /\ batch[i].Schedule \in schedules
                           /\ batch[i].Schedule.fire_at <= now
                           /\ batch[i].Schedule.status = "pending"
                           /\ batch[i].Trigger \in triggers
                           /\ batch[i].Trigger.id = batch[i].Schedule.trigger_id
                           /\ batch[i].Trigger.status = "active"
            /\ eng'[e].batch # eng[e].batch
               => IF eng[e].batch = <<>>
                  THEN eng[e].pc = "idle"
                  ELSE eng[e].pc = "done" /\ eng'[e].batch = Tail(eng[e].batch)
            /\ \A s \in schedules : \A x \in schedules' :
                 (x.id = s.id /\ s.status # "processing" /\ x.status = "processing")
                 => \E c \in EngineIds :
                       eng[c].pc = "claim" /\ Cur(c).Schedule.id = s.id
         ]_vars

\* The first of two schedules of a batch with different fire_at has been
\* claimed.
C31_Witness ==
    /\ eng[1].pc = "fire"
    /\ Len(eng[1].batch) = 2
    /\ eng[1].batch[1].Schedule.fire_at < eng[1].batch[2].Schedule.fire_at
    /\ \E s \in schedules :
         s.id = eng[1].batch[1].Schedule.id /\ s.status = "processing"

\* C32: when the claim of processSchedule fails (the update to processing
\* changes no row: it returned an error or affected none), processSchedule
\* returns its error at once: FireTrigger is not called, no event log is
\* written, nothing is published, no trigger is deactivated; and until the
\* loop moves on to the next schedule of the batch, which the row is not
\* part of again, the engine changes nothing in the store.
C32_ClaimFailureSkips ==
    [][\A e \in EngineIds :
         /\ (eng[e].pc = "claim" /\ eng'[e] # eng[e] /\ schedules' = schedules)
            => /\ eng'[e].pc = "done"
               /\ eng'[e].ret = "claim_failed"
               /\ eng'[e].fire = NoFire
               /\ eventLogs' = eventLogs /\ bus' = bus /\ triggers' = triggers
               /\ Cur(e).Schedule.id \notin BatchIds(Tail(eng[e].batch))
         /\ (eng[e].pc = "done" /\ eng[e].ret = "claim_failed" /\ eng'[e] # eng[e])
            => /\ eng'[e].batch = Tail(eng[e].batch)
               /\ eng'[e].pc \in {"claim", "idle"}
               /\ schedules' = schedules /\ triggers' = triggers
               /\ eventLogs' = eventLogs /\ bus' = bus
               /\ nextSchedId' = nextSchedId /\ nextEventId' = nextEventId
      ]_vars

\* The claim of a schedule has failed: processSchedule has returned its
\* error and the row is pending as it was.
C32_Witness ==
    \E e \in engines :
       /\ eng[e].pc = "done"
       /\ eng[e].ret = "claim_failed"
       /\ \A s \in CurRows(e) : s.status = "pending" /\ s.updated_at = 0
       /\ CurRows(e) # {}

\* What every step leaves of the event logs it finds: the row keeps its
\* trigger_type, fired_at, source and is_test_run; execution_status and
\* error_message change only by the patch FireTrigger issues after a failed
\* publish of that event, to failure; retention_status changes only in a
\* run of the archive job, from active to archived; and trigger_id either
\* never changes (nullable FALSE) or changes only to null, in the
\* DeleteTrigger of the trigger it names.
EventLogsPatchedOnly(nullable) ==
    \A l \in eventLogs : \A x \in eventLogs' :
       x.id = l.id
       => /\ x.trigger_type = l.trigger_type
          /\ x.fired_at = l.fired_at
          /\ x.source = l.source
          /\ x.is_test_run = l.is_test_run
          /\ x.trigger_id # l.trigger_id
             => /\ nullable
                /\ x.trigger_id = 0
                /\ api'.op = "delete" /\ api'.trigger_id = l.trigger_id
          /\ (x.execution_status # l.execution_status
                \/ x.error_message # l.error_message)
             => /\ \E e \in Callers :
                     /\ eng[e].pc = "patch"
                     /\ eng[e].fire = [event_id |-> l.id, err |-> TRUE]
                     /\ eng'[e].pc = "complete"
                /\ x.execution_status = "failure"
                /\ x.error_message # ""
          /\ ~(l.execution_status = "failure" /\ x.execution_status = "success")
          /\ x.retention_status # l.retention_status
             => /\ api'.op = "archive_old_events"
                /\ l.retention_status = "active"
                /\ x.retention_status = "archived"

\* C33 as stated: event logs are append-only apart from the patches of
\* execution_status and error_message (after a failed publish) and of
\* retention_status (by the archive job): no step changes any other field
\* of a stored event log, trigger_id included, and execution_status never
\* goes from failure back to success.
C33_OnlyStatusPatches == [][EventLogsPatchedOnly(FALSE)]_vars

\* C33, amended: the same, except that the DeleteTrigger of the trigger a
\* log names sets the log's trigger_id to null.
C33_AppendOnly == [][EventLogsPatchedOnly(TRUE)]_vars

\* An event log on which all three patches were made: marked failure after
\* its publish failed, archived, and left without its trigger.
C33_Witness ==
    \E l \in eventLogs :
       /\ l.execution_status = "failure"
       /\ l.retention_status = "archived"
       /\ l.trigger_id = 0

\* A step of an UpdateTrigger request that carries no config.
StatusOnlyUpdateStep ==
    /\ upd' # upd
    /\ IF upd.pc = "idle" THEN ~upd'.updates.has_config
                          ELSE ~upd.updates.has_config

\* C34: an UpdateTrigger that carries a name or status and no config
\* changes no schedule row: none of its steps cancels, inserts or re-times
\* a schedule (it never calls UpsertTriggerSchedule), so that a trigger set
\* back to active has the pending schedule it had.
C34_StatusUpdateKeepsSchedules ==
    [][StatusOnlyUpdateStep
       => /\ schedules' = schedules
          /\ nextSchedId' = nextSchedId
          /\ upd'.pc # "upsert"
          /\ upd'.fire_at = NoFireAt
      ]_vars

\* An inactive trigger has just been set back to active: its first
\* schedule, now overdue, is pending as it was created.
C34_Witness ==
    /\ api.op = "update" /\ api.ret = "ok"
    /\ api.trigger_id \in TriggerIds
    /\ TriggerRow(api.trigger_id).status = "active"
    /\ TriggerRow(api.trigger_id).updated_at = now
    /\ schedules = {FirstSchedule(1, 1, 0, 0)}
    /\ now > 0
    /\ eventLogs = {}

\* C35: when a call of processSchedule that claimed its schedule has
\* returned, whatever happened after the claim, the schedule is not
\* processing.
C35_ClaimedNotLeftProcessing ==
    \A e \in engines :
       (Returned(e) /\ eng[e].ret # "claim_failed")
       => \A s \in CurRows(e) : s.status # "processing"

\* C36: in the step in which processSchedule returns from a cron schedule
\* it claimed, the trigger being stored and active, the trigger has a
\* pending schedule, whether FireTrigger succeeded or failed and whatever
\* the attempt_count of the schedule.
C36_RecurrenceGoesOn ==
    [][\A e \in EngineIds :
         (/\ eng[e].pc \in {"complete", "post"}
          /\ eng'[e].pc = "done"
          /\ Cur(e).Trigger.type = "cron_scheduled"
          /\ \E t \in triggers' :
                t.id = Cur(e).Trigger.id /\ t.status = "active")
         => \E s \in schedules' :
               s.trigger_id = Cur(e).Trigger.id /\ s.status = "pending"
      ]_vars

\* The row with the id of s in a set of schedule rows.
RowOf(rows, s) == CHOOSE x \in rows : x.id = s.id

ScheduleStatuses == {"pending", "processing", "completed", "cancelled"}

C38_BatchRunsToEnd ==
    [][\A e \in EngineIds :
         /\ (eng[e].pc = "done" /\ eng'[e] # eng[e] /\ Len(eng[e].batch) > 1)
            => /\ eng'[e].pc = "claim"
               /\ eng'[e].batch = Tail(eng[e].batch)
         /\ (eng[e].pc # "idle" /\ eng'[e].pc = "idle")
            => eng[e].pc = "done" /\ Len(eng[e].batch) = 1
         /\ (eng[e].pc # "idle" /\ eng'[e].batch # eng[e].batch)
            => eng[e].pc = "done"
         /\ (eng[e].pc # "done" /\ eng'[e].pc = "done")
            => eng[e].pc \in {"claim", "complete", "post"}
      ]_vars

\* The second schedule of a batch has been claimed after processSchedule
\* returned an error for the first, which it left processing.
C38_Witness ==
    /\ eng[1].pc = "fire"
    /\ Len(eng[1].batch) = 1
    /\ Cur(1).Schedule.id \in {1, 2}
    /\ \E s \in schedules :
         /\ s.id \in {1, 2}
         /\ s.id # Cur(1).Schedule.id
         /\ s.status = "processing"
         /\ s.fire_at = Cur(1).Schedule.fire_at
    /\ now = 1

\* C39: every schedule row references a stored trigger, under every
\* interleaving of the API with the scheduler: once DeleteTrigger has
\* removed a trigger, no schedule row of it is left, and the
\* UpdateScheduleStatus and CreateNextSchedule calls of a scheduler that
\* read the trigger before the delete create none.
C39_SchedulesReferenceTriggers ==
    \A s \in schedules : s.trigger_id \in TriggerIds

\* The scheduler read a cron trigger and completed the processing of its
\* schedule after the trigger was deleted: the insert of the next schedule
\* was refused and no schedule row of the trigger exists.
C39_Witness ==
    \E e \in engines :
       /\ eng[e].pc = "done"
       /\ eng[e].ret = "create_next_failed"
       /\ Cur(e).Trigger.id \notin TriggerIds
       /\ \A s \in schedules : s.trigger_id # Cur(e).Trigger.id

\* A step of the webhook intake: the handler reads the trigger and answers
\* or calls FireTrigger, FireTrigger makes one of its calls, or the handler
\* answers after FireTrigger.
WebhookStep == \E h \in WebhookHandlers : eng'[h] # eng[h] \/ api'.op = "webhook"

\* C40: no step of the webhook intake, whatever the answer of the request,
\* changes a trigger row or a schedule row; it leaves the event logs and
\* the events of other fires as they are, adding at most one event log and
\* one event.
C40_WebhookFrame ==
    [][WebhookStep
       => /\ triggers' = triggers
          /\ schedules' = schedules
          /\ nextSchedId' = nextSchedId /\ nextTriggerId' = nextTriggerId
          /\ {l.id : l \in eventLogs} \subseteq {l.id : l \in eventLogs'}
          /\ Cardinality(eventLogs') <= Cardinality(eventLogs) + 1
          /\ \A l \in eventLogs :
               l.source # "webhook" => l \in eventLogs'
          /\ Len(bus') \in {Len(bus), Len(bus) + 1}
          /\ SubSeq(bus', 1, Len(bus)) = bus
      ]_vars

\* A webhook request has been answered 202 while the scheduler has the
\* schedule of the other trigger claimed.
C40_Witness ==
    /\ api.op = "webhook" /\ api.ret = "202"
    /\ \E s \in schedules : s.status = "processing"
    /\ \E l \in eventLogs : l.id = api.event_id /\ l.trigger_id = 1
    /\ Len(bus) > 0

============================================================================
